---- MODULE Spec2Model ----
(***************************************************************************)
(* Face-recognition attendance system.                                     *)
(*                                                                         *)
(* The attendance service (registerUser, markAttendance, the queries)      *)
(* keeps two JSON lists in localStorage; the face matcher is the mock      *)
(* matcher of the face-recognition module.  Time is counted in ticks,      *)
(* TicksPerDay ticks to a calendar day; an ISO timestamp is the pair       *)
(* (date, time of day) and its date part is what split("T")[0] yields.     *)
(* uuidv4() is a source of fresh identifiers, modelled by a counter.       *)
(* A distance is counted in tenths (0.3 is 3, 1.0 is 10).                  *)
(***************************************************************************)
EXTENDS Integers, Sequences, FiniteSets, TLC

VARIABLES
    users,       \* the list stored under STORAGE_KEYS.USERS (an absent key reads as [])
    attendance,  \* the list stored under STORAGE_KEYS.ATTENDANCE (an absent key reads as [])
    clock,       \* the instant new Date() yields
    nextUuid,    \* the next identifier uuidv4() yields
    result,      \* the last call: operation, arguments, the line it left by, its value
    caller,      \* per concurrent caller of markAttendance: its position and locals
    query,       \* the descriptor handed to the matcher
    candidates,  \* the labeled descriptors handed to the matcher
    threshold,   \* the distanceThreshold a MockFaceMatcher is built with
    match,       \* the last result of a matcher, and which matcher gave it
    ui           \* the attendance-marking screen: its React state, its timers

storeVars == <<users, attendance, clock, nextUuid, result>>
matchVars == <<query, candidates, threshold, match>>
vars == <<users, attendance, clock, nextUuid, result, caller, query, candidates, threshold,
          match, ui>>

-----------------------------------------------------------------------------
(* Bounds of the model *)

MaxClock == 2
TicksPerDay == 2
MaxUuid == 3
MaxCallerUuid == 4
MaxRecords == 2
EmbLen == 1
MaxCandidates == 2
MaxTimers == 2

Emails == {"a@x.com", "b@x.com"}
\* What a person registers with: a name and the descriptor captured
Profiles == {[name |-> "Alice", faceDescriptor |-> <<0>>],
             [name |-> "Alice B", faceDescriptor |-> <<1>>]}
Uuids == 1..MaxUuid
Callers == {1, 2}

\* Descriptor coordinates, in tenths: 0.0, 0.1 and 0.8
Coords == {0, 1, 8}
Embeddings == [1..EmbLen -> Coords]

\* The thresholds a matcher is built with, in tenths: 0.2 and the default 0.6
DefaultThreshold == 6
Thresholds == {2, DefaultThreshold}

-----------------------------------------------------------------------------
(* Storage and time *)

\* new Date(t).toISOString(): the date part and the time part of the instant
toISOString(t) == [date |-> t \div TicksPerDay, time |-> t % TicksPerDay]

\* iso.split("T")[0]
datePart(iso) == iso.date

\* new Date(iso).getTime()
getTime(iso) == iso.date * TicksPerDay + iso.time

\* Array.prototype.find, given the indices of the elements that satisfy the
\* predicate: the index of the first of them, 0 (undefined) when there is none
find(hits) ==
    IF hits = {} THEN 0 ELSE CHOOSE i \in hits : \A j \in hits : i <= j

NoValue == [none |-> TRUE]

\* An argument that is not handed over: no list, and equal to none.
undefined == [i \in {0} |-> 0]

\* A number that is not finite (NaN, Infinity), and the null that
\* JSON.stringify writes in its place; the finite ones are 0 or more here.
NaN == 0 - 1
null == 0 - 2

\* JSON.parse(JSON.stringify(user)): what a later read finds of a user written
stored(user) ==
    [user EXCEPT !.faceDescriptor =
        [i \in DOMAIN user.faceDescriptor |->
            IF user.faceDescriptor[i] = NaN THEN null ELSE user.faceDescriptor[i]]]

-----------------------------------------------------------------------------
(* registerUser *)

\* us: the parsed users list; userData: name, email, faceDescriptor;
\* now: the instant; uuid: the next fresh identifier; io: what the setItem
\* calls do.  Yields the stored list, the returned user, the line returned
\* from and the number of uuids drawn.
\*   "ok":      the setItem of the try block succeeds
\*   "saved":   it throws, the setItem of the catch block succeeds
\*   "unsaved": both throw
WriteOutcomes == {"ok", "saved", "unsaved"}

\* registerUser without the lookup by email: every call appends.
registerUserAlwaysNew(us, userData, now, uuid, io) ==
    LET newUser == [id |-> uuid, name |-> userData.name, email |-> userData.email,
                    faceDescriptor |-> userData.faceDescriptor,
                    registeredAt |-> toISOString(now)]
    IN  [users |-> Append(us, stored(newUser)), value |-> newUser, line |-> 110, uuids |-> 1]

registerUser(us, userData, now, uuid, io) ==
    LET i == find({k \in 1..Len(us) : us[k].email = userData.email})
        existingUser == [us[i] EXCEPT !.name = userData.name,
                                      !.faceDescriptor = userData.faceDescriptor,
                                      !.registeredAt = toISOString(now)]
        newUser == [id |-> uuid, name |-> userData.name, email |-> userData.email,
                    faceDescriptor |-> userData.faceDescriptor,
                    registeredAt |-> toISOString(now)]
        drawn == IF i # 0 THEN 0 ELSE 1
        fallbackUser == [id |-> uuid + drawn, name |-> userData.name,
                         email |-> userData.email,
                         faceDescriptor |-> userData.faceDescriptor,
                         registeredAt |-> toISOString(now)]
    IN  IF io = "ok"
        THEN IF i # 0
             THEN [users |-> [us EXCEPT ![i] = stored(existingUser)],
                   value |-> existingUser, line |-> 96, uuids |-> 0]
             ELSE [users |-> Append(us, stored(newUser)),
                   value |-> newUser, line |-> 110, uuids |-> 1]
        ELSE [users |-> IF io = "saved" THEN <<stored(fallbackUser)>> ELSE us,
              value |-> fallbackUser, line |-> 129, uuids |-> drawn + 1]

-----------------------------------------------------------------------------
(* markAttendance *)

\* us, recs: the parsed lists; today: the date read first; timestamp: the
\* instant read when the record is built; writeOk: whether setItem succeeds.
\* markAttendance without the check for a record of today.
markAttendanceNoDedup(us, recs, userId, today, timestamp, uuid, writeOk) ==
    LET u == find({k \in 1..Len(us) : us[k].id = userId})
        newRecord == [id |-> uuid, userId |-> userId, userName |-> us[u].name,
                      timestamp |-> timestamp, date |-> today]
    IN  IF u = 0
        THEN [records |-> recs, line |-> 189,
              value |-> [error |-> "User not found"], uuids |-> 0]
        ELSE [records |-> Append(recs, newRecord), line |-> 214,
              value |-> newRecord, uuids |-> 1]

\* markAttendance refreshing the timestamp of today's record when marking again.
markAttendanceRemark(us, recs, userId, today, timestamp, uuid, writeOk) ==
    LET u == find({k \in 1..Len(us) : us[k].id = userId})
        e == find({k \in 1..Len(recs) : recs[k].userId = userId /\ recs[k].date = today})
        newRecord == [id |-> uuid, userId |-> userId, userName |-> us[u].name,
                      timestamp |-> timestamp, date |-> today]
    IN  IF u = 0
        THEN [records |-> recs, line |-> 189,
              value |-> [error |-> "User not found"], uuids |-> 0]
        ELSE IF e # 0
        THEN [records |-> [recs EXCEPT ![e].timestamp = timestamp], line |-> 199,
              value |-> [recs[e] EXCEPT !.timestamp = timestamp], uuids |-> 0]
        ELSE [records |-> Append(recs, newRecord), line |-> 214,
              value |-> newRecord, uuids |-> 1]

\* markAttendance building the record before it looks the user up.
markAttendanceNoUserCheck(us, recs, userId, today, timestamp, uuid, writeOk) ==
    LET e == find({k \in 1..Len(recs) : recs[k].userId = userId /\ recs[k].date = today})
        newRecord == [id |-> uuid, userId |-> userId, userName |-> "undefined",
                      timestamp |-> timestamp, date |-> today]
    IN  IF e # 0
        THEN [records |-> recs, line |-> 199, value |-> recs[e], uuids |-> 0]
        ELSE [records |-> Append(recs, newRecord), line |-> 214,
              value |-> newRecord, uuids |-> 1]

\* markAttendance returning the record of any day for a user who has one.
markAttendanceOncePerUser(us, recs, userId, today, timestamp, uuid, writeOk) ==
    LET u == find({k \in 1..Len(us) : us[k].id = userId})
        e == find({k \in 1..Len(recs) : recs[k].userId = userId})
        newRecord == [id |-> uuid, userId |-> userId, userName |-> us[u].name,
                      timestamp |-> timestamp, date |-> today]
    IN  IF u = 0
        THEN [records |-> recs, line |-> 189,
              value |-> [error |-> "User not found"], uuids |-> 0]
        ELSE IF e # 0
        THEN [records |-> recs, line |-> 199, value |-> recs[e], uuids |-> 0]
        ELSE [records |-> Append(recs, newRecord), line |-> 214,
              value |-> newRecord, uuids |-> 1]

\* markAttendance keeping only the latest record of a user.
markAttendanceLatestOnly(us, recs, userId, today, timestamp, uuid, writeOk) ==
    LET u == find({k \in 1..Len(us) : us[k].id = userId})
        e == find({k \in 1..Len(recs) : recs[k].userId = userId /\ recs[k].date = today})
        newRecord == [id |-> uuid, userId |-> userId, userName |-> us[u].name,
                      timestamp |-> timestamp, date |-> today]
        others == SelectSeq(recs, LAMBDA record : record.userId # userId)
    IN  IF u = 0
        THEN [records |-> recs, line |-> 189,
              value |-> [error |-> "User not found"], uuids |-> 0]
        ELSE IF e # 0
        THEN [records |-> recs, line |-> 199, value |-> recs[e], uuids |-> 0]
        ELSE [records |-> Append(others, newRecord), line |-> 214,
              value |-> newRecord, uuids |-> 1]

\* markAttendance taking the email of the user for the userName of the record.
markAttendanceEmailAsName(us, recs, userId, today, timestamp, uuid, writeOk) ==
    LET u == find({k \in 1..Len(us) : us[k].id = userId})
        e == find({k \in 1..Len(recs) : recs[k].userId = userId /\ recs[k].date = today})
        newRecord == [id |-> uuid, userId |-> userId, userName |-> us[u].email,
                      timestamp |-> timestamp, date |-> today]
    IN  IF u = 0
        THEN [records |-> recs, line |-> 189,
              value |-> [error |-> "User not found"], uuids |-> 0]
        ELSE IF e # 0
        THEN [records |-> recs, line |-> 199, value |-> recs[e], uuids |-> 0]
        ELSE [records |-> Append(recs, newRecord), line |-> 214,
              value |-> newRecord, uuids |-> 1]

markAttendance(us, recs, userId, today, timestamp, uuid, writeOk) ==
    LET u == find({k \in 1..Len(us) : us[k].id = userId})
        alreadyMarked == \E k \in 1..Len(recs) :
                            recs[k].userId = userId /\ recs[k].date = today
        e == find({k \in 1..Len(recs) : recs[k].userId = userId /\ recs[k].date = today})
        newRecord == [id |-> uuid, userId |-> us[u].id, userName |-> us[u].name,
                      timestamp |-> timestamp, date |-> today]
    IN  IF u = 0
        THEN [records |-> recs, line |-> 189,
              value |-> [error |-> "User not found"], uuids |-> 0]
        ELSE IF alreadyMarked
        THEN [records |-> recs, line |-> 199,
              value |-> recs[e], uuids |-> 0]
        ELSE IF writeOk
        THEN [records |-> Append(recs, newRecord), line |-> 214,
              value |-> newRecord, uuids |-> 1]
        ELSE [records |-> recs, line |-> 212,
              value |-> [error |-> "QuotaExceededError"], uuids |-> 1]

-----------------------------------------------------------------------------
(* The calls, one action each *)

NoCall == [op |-> "none", arg |-> NoValue, line |-> 0, value |-> NoValue]
Idle == [pc |-> "idle", userId |-> 0, arg |-> NoValue, users |-> <<>>,
         records |-> <<>>, line |-> 0, value |-> NoValue, today |-> 0]
NoMatch == [by |-> "none", label |-> "none", distance |-> 0]

InitStore ==
    /\ users = <<>>
    /\ attendance = <<>>
    /\ clock = 0
    /\ nextUuid = 1
    /\ result = NoCall

InitCallers == caller = [c \in Callers |-> Idle]

\* The screen once the models are loaded and the camera runs: nobody is
\* recognized, the recognition interval runs, no reset timer is pending.
\* An id of 0 is null.
NoScreen == [recognizedUser |-> NoValue, currentUserId |-> 0,
             attendanceMarked |-> FALSE, alreadyMarkedToday |-> FALSE,
             processingAttendance |-> FALSE, error |-> FALSE,
             interval |-> TRUE, timers |-> <<>>, pc |-> "idle", marking |-> 0,
             event |-> "none", fired |-> 0]

InitScreen == ui = NoScreen

InitMatcher ==
    /\ query = [i \in 1..EmbLen |-> 0]
    /\ candidates = <<>>
    /\ threshold = DefaultThreshold
    /\ match = NoMatch

Init == InitStore /\ InitCallers /\ InitScreen /\ InitMatcher

\* The date a call reads at this instant: new Date().toISOString().split("T")[0]
Today == datePart(toISOString(clock))

\* Time passes between calls.
Tick ==
    /\ clock < MaxClock
    /\ clock' = clock + 1
    /\ UNCHANGED <<users, attendance, nextUuid, result, caller, matchVars, ui>>

RegisterUser ==
    \E p \in Profiles, email \in Emails, io \in WriteOutcomes :
        LET userData == [name |-> p.name, email |-> email,
                         faceDescriptor |-> p.faceDescriptor]
            out == registerUser(users, userData, clock, nextUuid, io)
        IN  /\ nextUuid + out.uuids <= MaxUuid + 1
            /\ users' = out.users
            /\ nextUuid' = nextUuid + out.uuids
            /\ result' = [op |-> "registerUser", arg |-> userData,
                          line |-> out.line, value |-> out.value]
            /\ UNCHANGED <<attendance, clock, caller, matchVars, ui>>

MarkAttendance ==
    \E userId \in Uuids, writeOk \in BOOLEAN, dt \in 0..1 :
        LET out == markAttendance(users, attendance, userId, Today,
                                  toISOString(clock + dt), nextUuid, writeOk)
        IN  /\ nextUuid + out.uuids <= MaxUuid + 1
            /\ clock + dt <= MaxClock
            /\ attendance' = out.records
            /\ nextUuid' = nextUuid + out.uuids
            /\ clock' = IF out.line \in {212, 214} THEN clock + dt ELSE clock
            /\ result' = [op |-> "markAttendance", arg |-> [userId |-> userId, today |-> Today],
                          line |-> out.line, value |-> out.value]
            /\ UNCHANGED <<users, caller, matchVars, ui>>

Next == Tick \/ RegisterUser \/ MarkAttendance

Spec == Init /\ [][Next]_vars

-----------------------------------------------------------------------------
(* Properties of the attendance service *)

\* The step is a registerUser call for this email.
RegisterStep(email) ==
    result' # result /\ result'.op = "registerUser" /\ result'.arg.email = email

\* The step is a markAttendance call for this userId.
MarkStep(userId) ==
    result' # result /\ result'.op = "markAttendance" /\ result'.arg.userId = userId

IsStored(userId) == \E i \in 1..Len(users) : users[i].id = userId

StoredEmail(email) == \E i \in 1..Len(users) : users[i].email = email

RecordsOf(userId, date) ==
    {k \in 1..Len(attendance) : attendance[k].userId = userId /\ attendance[k].date = date}

\* C1: the ledger never holds two records with the same userId and the same
\* date, after any sequence of registerUser and markAttendance calls.
C1_OneRecordPerUserAndDate ==
    \A i, j \in 1..Len(attendance) :
        (attendance[i].userId = attendance[j].userId /\ attendance[i].date = attendance[j].date)
            => i = j

\* A user marked on two days, marked again on the second: two records, no third.
C1_Witness ==
    /\ result.op = "markAttendance" /\ result.line = 199
    /\ \E i, j \in 1..Len(attendance) :
          i # j /\ attendance[i].userId = attendance[j].userId
                /\ attendance[j].date = result.arg.today

\* C2: a markAttendance call that creates a record returns the record it
\* stored; a markAttendance call for a stored user who has a record of the
\* current date returns that very record (id, timestamp and date), raises no
\* error and leaves the ledger as it was.
C2_MarkIdempotentWithinDay ==
    [][\A userId \in Uuids :
          MarkStep(userId) =>
            /\ (result'.line = 214 =>
                  attendance' = Append(attendance, result'.value))
            /\ (IsStored(userId) /\ RecordsOf(userId, Today) # {} =>
                  /\ result'.line = 199
                  /\ \E k \in RecordsOf(userId, Today) : result'.value = attendance[k]
                  /\ attendance' = attendance)]_vars

\* The second call of the day has returned the stored record.
C2_Witness ==
    /\ result.op = "markAttendance" /\ result.line = 199
    /\ \E k \in 1..Len(attendance) :
          /\ attendance[k] = result.value
          /\ attendance[k].userId = result.arg.userId
          /\ attendance[k].date = result.arg.today

\* C4: no two stored users have the same email, and no two have the same id,
\* storage errors included.
C4_UniqueEmailAndId ==
    \A i, j \in 1..Len(users) :
        (users[i].email = users[j].email \/ users[i].id = users[j].id) => i = j

\* Two users are stored and a registration has just hit a storage error.
C4_Witness ==
    Len(users) = 2 /\ result.op = "registerUser" /\ result.line = 129

\* C5: registerUser with a stored email leaves the number of stored users
\* unchanged, gives the user of that email the new name, the new face
\* descriptor and a refreshed registeredAt, and returns that updated record.
C5_ReRegisterUpdatesInPlace ==
    [][\A email \in Emails :
          (StoredEmail(email) /\ RegisterStep(email)) =>
            /\ Len(users') = Len(users)
            /\ \E i \in 1..Len(users') :
                  /\ users'[i].email = email
                  /\ users'[i].name = result'.arg.name
                  /\ users'[i].faceDescriptor = result'.arg.faceDescriptor
                  /\ users'[i].registeredAt = toISOString(clock)
                  /\ result'.value = users'[i]]_vars

\* C6: registerUser with an email stored under id X returns an identity of
\* id X and leaves the stored user of that email with id X, on every path.
C6_IdImmutable ==
    [][\A email \in Emails : \A i \in 1..Len(users) :
          (users[i].email = email /\ RegisterStep(email)) =>
            /\ result'.value.id = users[i].id
            /\ \E j \in 1..Len(users') :
                  users'[j].email = email /\ users'[j].id = users[i].id]_vars

\* C7: markAttendance with a userId of no stored user fails with "User not
\* found", creates no record and leaves the ledger and the users unchanged.
C7_MarkUnknownUserFails ==
    [][\A userId \in Uuids :
          (~IsStored(userId) /\ MarkStep(userId)) =>
            /\ result'.line = 189
            /\ result'.value = [error |-> "User not found"]
            /\ attendance' = attendance
            /\ users' = users]_vars

\* A call for an unknown id has failed while users and records are stored.
C7_Witness ==
    /\ result.op = "markAttendance" /\ result.line = 189
    /\ ~IsStored(result.arg.userId)
    /\ Len(users) >= 1 /\ Len(attendance) >= 1

\* C16: a markAttendance call for a stored user who has records of other
\* dates and none of the current date, when it returns, has created a record
\* of the current date with an id no other record has, and every record the
\* ledger held is still there.
C16_NewDayNewRecord ==
    [][\A userId \in Uuids :
          (/\ MarkStep(userId) /\ IsStored(userId)
           /\ RecordsOf(userId, Today) = {}
           /\ result'.line # 212) =>
             /\ result'.line = 214
             /\ attendance' = Append(attendance, result'.value)
             /\ result'.value.userId = userId
             /\ result'.value.date = Today
             /\ \A k \in 1..Len(attendance) :
                   /\ attendance[k].id # result'.value.id
                   /\ attendance[k].userId = userId =>
                         attendance[k].date # result'.value.date]_vars

\* The user has been marked on a second day: two records, ids and dates apart.
C16_Witness ==
    /\ result.op = "markAttendance" /\ result.line = 214
    /\ \E i, j \in 1..Len(attendance) :
          /\ attendance[j] = result.value
          /\ attendance[i].userId = attendance[j].userId
          /\ attendance[i].id # attendance[j].id
          /\ attendance[i].date # attendance[j].date

\* C17: a registerUser call that cannot read or write storage raises the
\* error to its caller: it returns no user and leaves the stored users alone.
C17_StorageFailureSurfaces ==
    [][\A email \in Emails :
          (RegisterStep(email) /\ result'.line = 129) =>
             /\ "error" \in DOMAIN result'.value
             /\ users' = users]_vars

\* C19: a record carries the name the user had when it was created; a
\* registerUser call, one that changes the name of the stored user included,
\* leaves the ledger as it was.
C19_UserNameIsSnapshot ==
    [][/\ \A userId \in Uuids :
             (MarkStep(userId) /\ result'.line = 214) =>
                /\ \E i \in 1..Len(users) :
                      users[i].id = userId /\ result'.value.userName = users[i].name
                /\ attendance'[Len(attendance')] = result'.value
       /\ \A email \in Emails :
             RegisterStep(email) =>
                /\ attendance' = attendance
                /\ result'.line = 96 =>
                      \E i \in 1..Len(users') :
                          /\ users'[i].email = email
                          /\ users'[i].name = result'.arg.name]_vars

\* The user of a record has just been registered again under another name,
\* and the record still has the name it was created with.
C19_Witness ==
    /\ result.op = "registerUser" /\ result.line = 96
    /\ \E k \in 1..Len(attendance), i \in 1..Len(users) :
          /\ users[i].id = attendance[k].userId
          /\ users[i] = result.value
          /\ users[i].name # attendance[k].userName

\* C27: a registerUser call for an email leaves every stored user with
\* another email stored, with the same id, name, face descriptor and
\* registeredAt, whatever the path it takes.
C27_RegisterTouchesOneEmail ==
    [][\A email \in Emails :
          RegisterStep(email) =>
             \A i \in 1..Len(users) :
                users[i].email # email =>
                   \E j \in 1..Len(users') : users'[j] = users[i]]_vars

\* C23: in every record the date is the calendar date of that record's
\* timestamp, a markAttendance call running across midnight included.
C23_DateIsDateOfTimestamp ==
    \A k \in 1..Len(attendance) :
        attendance[k].date = datePart(attendance[k].timestamp)

\* C28: the userId of every record in the ledger is the id of a stored
\* user, after any sequence of registerUser and markAttendance calls.
C28_RecordsReferToStoredUsers ==
    \A k \in 1..Len(attendance) : IsStored(attendance[k].userId)

-----------------------------------------------------------------------------
(* The mock face matcher *)

\* distance: 0.3, the distance both matchers report with a label
MockDistance == 3
\* distance: 1.0, the distance reported with "unknown"
UnknownDistance == 10

\* new MockLabeledFaceDescriptors(label, descriptors)
MockLabeledFaceDescriptors(label, descriptors) ==
    [label |-> label, descriptors |-> descriptors, name |-> label]

\* mockFindBestMatch reporting the matched distance with "unknown" too.
mockFindBestMatchOneDistance(descriptor, labeledDescriptors, randomIndex) ==
    IF labeledDescriptors # undefined /\ Len(labeledDescriptors) > 0
    THEN [label |-> labeledDescriptors[randomIndex].label, distance |-> MockDistance]
    ELSE [label |-> "unknown", distance |-> MockDistance]

\* randomIndex: Math.floor(Math.random() * labeledDescriptors.length), from 1
mockFindBestMatch(descriptor, labeledDescriptors, randomIndex) ==
    IF labeledDescriptors # undefined /\ Len(labeledDescriptors) > 0
    THEN [label |-> labeledDescriptors[randomIndex].label, distance |-> MockDistance]
    ELSE [label |-> "unknown", distance |-> UnknownDistance]

\* new MockFaceMatcher(labeledDescriptors, distanceThreshold)
MockFaceMatcher(labeledDescriptors, distanceThreshold) ==
    [labeledDescriptors |-> labeledDescriptors, distanceThreshold |-> distanceThreshold]

\* MockFaceMatcher.findBestMatch(descriptor); reading the length of
\* undefined throws a TypeError.
findBestMatch(this, descriptor) ==
    IF this.labeledDescriptors = undefined
    THEN [error |-> "TypeError"]
    ELSE IF Len(this.labeledDescriptors) > 0
    THEN [label |-> this.labeledDescriptors[1].label, distance |-> MockDistance]
    ELSE [label |-> "unknown", distance |-> UnknownDistance]

\* The candidate lists: up to MaxCandidates labeled descriptors, their labels
\* distinct, each with one descriptor, as getUsersData builds them.
CandidateLists ==
    UNION {{[i \in 1..n |-> MockLabeledFaceDescriptors(ToString(i), <<es[i]>>)] :
              es \in [1..n -> Embeddings]} : n \in 0..MaxCandidates}

InitMatch ==
    /\ InitStore
    /\ InitCallers
    /\ InitScreen
    /\ query \in Embeddings
    /\ candidates \in CandidateLists
    /\ threshold \in Thresholds
    /\ match = NoMatch

MockFindBestMatch ==
    \E randomIndex \in 1..(IF candidates = undefined \/ Len(candidates) = 0
                            THEN 1 ELSE Len(candidates)) :
        LET r == mockFindBestMatch(query, candidates, randomIndex)
        IN  /\ match' = [by |-> "mockFindBestMatch", label |-> r.label, distance |-> r.distance]
            /\ UNCHANGED <<storeVars, caller, query, candidates, threshold, ui>>

FaceMatcherFindBestMatch ==
    LET r == findBestMatch(MockFaceMatcher(candidates, threshold), query)
    IN  /\ match' = IF "error" \in DOMAIN r
                     THEN [by |-> "MockFaceMatcher", error |-> r.error]
                     ELSE [by |-> "MockFaceMatcher", label |-> r.label,
                           distance |-> r.distance]
        /\ UNCHANGED <<storeVars, caller, query, candidates, threshold, ui>>

NextMatch == MockFindBestMatch \/ FaceMatcherFindBestMatch

SpecMatch == InitMatch /\ [][NextMatch]_vars

\* The matchers called with any candidate collection, an absent one included
InitMatchAny ==
    /\ InitStore
    /\ InitCallers
    /\ InitScreen
    /\ query \in Embeddings
    /\ candidates \in CandidateLists \cup {undefined}
    /\ threshold \in Thresholds
    /\ match = NoMatch

SpecMatchAny == InitMatchAny /\ [][NextMatch]_vars

-----------------------------------------------------------------------------
(* Properties of the matcher *)

RECURSIVE SumOfSquares(_, _, _)
SumOfSquares(a, b, n) ==
    IF n = 0 THEN 0 ELSE (a[n] - b[n]) * (a[n] - b[n]) + SumOfSquares(a, b, n - 1)

\* The square of the Euclidean distance between the query and a candidate
DistanceSq(i) == SumOfSquares(query, candidates[i].descriptors[1], EmbLen)

MinDistanceSq ==
    CHOOSE d \in {DistanceSq(i) : i \in 1..Len(candidates)} :
        \A i \in 1..Len(candidates) : d <= DistanceSq(i)

Matched == match.by # "none"

\* The threshold in force: the one a MockFaceMatcher was built with, the
\* reference default for mockFindBestMatch, which takes none
ConfiguredThreshold ==
    IF match.by = "MockFaceMatcher" THEN threshold ELSE DefaultThreshold

\* The candidate lies at a distance strictly below the threshold.
BelowThreshold(i) == DistanceSq(i) < ConfiguredThreshold * ConfiguredThreshold

\* C8: with a candidate strictly below the threshold, the matcher returns the
\* label of a candidate at the minimum distance, and that minimum distance.
C8_ReturnsNearestCandidate ==
    (Matched /\ \E i \in 1..Len(candidates) : BelowThreshold(i)) =>
        /\ \E i \in 1..Len(candidates) :
              candidates[i].label = match.label /\ DistanceSq(i) = MinDistanceSq
        /\ match.distance * match.distance = MinDistanceSq

\* C9: with no candidate strictly below the threshold the matcher returns
\* "unknown" with distance 1.0; a label other than "unknown" comes with a
\* distance strictly below the threshold.
C9_UnknownUnlessBelowThreshold ==
    Matched =>
        /\ (\A i \in 1..Len(candidates) : ~BelowThreshold(i)) =>
              (match.label = "unknown" /\ match.distance = UnknownDistance)
        /\ match.label # "unknown" => match.distance < ConfiguredThreshold

\* C10: matching against an empty candidate list returns "unknown" with
\* distance 1.0, whatever the query.
C10_EmptyCandidatesUnknown ==
    (Matched /\ Len(candidates) = 0) =>
        (match.label = "unknown" /\ match.distance = UnknownDistance)

\* mockFindBestMatch has answered a query against no candidates.
C10_Witness ==
    /\ match.by = "mockFindBestMatch" /\ candidates = <<>>
    /\ \E i \in 1..EmbLen : query[i] # 0
    /\ match.label = "unknown"

\* C11: the matcher is deterministic: a second invocation of the same matcher
\* with the same query and the same candidate list in the same order returns
\* the label and the distance the first one returned.
C11_MatcherDeterministic ==
    [][(Matched /\ match'.by = match.by /\ query' = query /\ candidates' = candidates)
          => (match'.label = match.label /\ match'.distance = match.distance)]_vars

\* The candidates at the minimum distance from the query
Tied == {i \in 1..Len(candidates) : DistanceSq(i) = MinDistanceSq}

\* C12: when several candidates tie at the same minimum distance below the
\* threshold, the matcher returns the label of the first of them in the list.
C12_TieReturnsFirst ==
    (/\ Matched /\ Len(candidates) > 0
     /\ Cardinality(Tied) >= 2
     /\ \E i \in Tied : BelowThreshold(i)) =>
        match.label = candidates[CHOOSE i \in Tied : \A j \in Tied : i <= j].label

\* C25: matching never fails: for every query and every candidate collection,
\* an empty or an absent one included, the matcher returns a label with a
\* distance and raises no error.
C25_MatchingNeverFails ==
    Matched => (DOMAIN match = {"by", "label", "distance"})

-----------------------------------------------------------------------------
(* Two callers of markAttendance against the same localStorage *)

\* The store after two registrations.
TwoUsers ==
    LET first == registerUser(<<>>, [name |-> "Alice", email |-> "a@x.com",
                                     faceDescriptor |-> <<0>>], 0, 1, "ok")
    IN  registerUser(first.users, [name |-> "Alice B", email |-> "b@x.com",
                                   faceDescriptor |-> <<1>>], 0, 2, "ok")

InitConc ==
    /\ users = TwoUsers.users
    /\ attendance = <<>>
    /\ clock = 0
    /\ nextUuid = 3
    /\ result = NoCall
    /\ InitCallers
    /\ InitScreen
    /\ InitMatcher

\* markAttendance up to the two reads of localStorage
CallerRead(c) ==
    \E userId \in Uuids :
        /\ caller[c].pc = "idle"
        /\ caller' = [caller EXCEPT ![c] = [Idle EXCEPT !.pc = "read", !.userId = userId,
                                                        !.users = users,
                                                        !.records = attendance]]
        /\ UNCHANGED <<storeVars, matchVars, ui>>

\* markAttendance from the lookup of the user to its return
CallerMark(c) ==
    \E writeOk \in BOOLEAN, dt \in 0..1 :
        LET me == caller[c]
            out == markAttendance(me.users, me.records, me.userId, Today,
                                  toISOString(clock + dt), nextUuid, writeOk)
        IN  /\ me.pc = "read"
            /\ nextUuid + out.uuids <= MaxCallerUuid + 1
            /\ clock + dt <= MaxClock
            /\ attendance' = IF out.line = 214 THEN out.records ELSE attendance
            /\ nextUuid' = nextUuid + out.uuids
            /\ clock' = IF out.line \in {212, 214} THEN clock + dt ELSE clock
            /\ caller' = [caller EXCEPT ![c] = [me EXCEPT !.pc = "done", !.line = out.line,
                                                          !.value = out.value,
                                                          !.today = Today]]
            /\ UNCHANGED <<users, result, matchVars, ui>>

\* The caller is free for its next call.
CallerDone(c) ==
    /\ caller[c].pc = "done"
    /\ caller' = [caller EXCEPT ![c] = Idle]
    /\ UNCHANGED <<storeVars, matchVars, ui>>

TickConc ==
    /\ clock < MaxClock
    /\ clock' = clock + 1
    /\ UNCHANGED <<users, attendance, nextUuid, result, caller, matchVars, ui>>

NextConc ==
    \/ TickConc
    \/ \E c \in Callers : CallerRead(c)
    \/ \E c \in Callers : CallerMark(c)
    \/ \E c \in Callers : CallerDone(c)

SpecConc == InitConc /\ [][NextConc]_vars

\* C3: when two markAttendance calls for the same user and day have run
\* concurrently and returned, exactly one record of that user and day is in
\* the ledger and both callers have received it.
C3_ConcurrentMarksShareOneRecord ==
    \A c, d \in Callers :
        (/\ c # d
         /\ caller[c].pc = "done" /\ caller[d].pc = "done"
         /\ caller[c].line \in {199, 214} /\ caller[d].line \in {199, 214}
         /\ caller[c].userId = caller[d].userId
         /\ caller[c].today = caller[d].today) =>
            /\ Cardinality(RecordsOf(caller[c].userId, caller[c].today)) = 1
            /\ \A k \in RecordsOf(caller[c].userId, caller[c].today) :
                  caller[c].value = attendance[k] /\ caller[d].value = attendance[k]

\* C29: when two markAttendance calls for two different users have run
\* concurrently and each has returned the record it created, both records
\* are in the ledger.
C29_NoLostRecord ==
    \A c, d \in Callers :
        (/\ c # d
         /\ caller[c].pc = "done" /\ caller[d].pc = "done"
         /\ caller[c].line = 214 /\ caller[d].line = 214
         /\ caller[c].userId # caller[d].userId) =>
            /\ \E k \in 1..Len(attendance) : attendance[k] = caller[c].value
            /\ \E k \in 1..Len(attendance) : attendance[k] = caller[d].value

-----------------------------------------------------------------------------
(* Two callers of registerUser against the same localStorage *)

\* registerUser up to the read of the USERS key (lines 75-86)
CallerReadUsers(c) ==
    \E p \in Profiles, email \in Emails :
        /\ caller[c].pc = "idle"
        /\ caller' = [caller EXCEPT ![c] =
                         [Idle EXCEPT !.pc = "read",
                                      !.arg = [name |-> p.name, email |-> email,
                                               faceDescriptor |-> p.faceDescriptor],
                                      !.users = users]]
        /\ UNCHANGED <<storeVars, matchVars, ui>>

\* registerUser from the lookup by email to its return; a setItem that
\* succeeds replaces whatever the USERS key holds by then.
CallerRegister(c) ==
    \E io \in WriteOutcomes :
        LET me == caller[c]
            out == registerUser(me.users, me.arg, clock, nextUuid, io)
        IN  /\ me.pc = "read"
            /\ nextUuid + out.uuids <= MaxCallerUuid + 1
            /\ users' = IF io = "unsaved" THEN users ELSE out.users
            /\ nextUuid' = nextUuid + out.uuids
            /\ caller' = [caller EXCEPT ![c] = [me EXCEPT !.pc = "done", !.line = out.line,
                                                          !.value = out.value]]
            /\ UNCHANGED <<attendance, clock, result, matchVars, ui>>

NextConcRegister ==
    \/ \E c \in Callers : CallerReadUsers(c)
    \/ \E c \in Callers : CallerRegister(c)
    \/ \E c \in Callers : CallerDone(c)

SpecConcRegister == Init /\ [][NextConcRegister]_vars

\* C22: when two registerUser calls with the same email, registered by
\* neither's read of the store, have run concurrently and returned, exactly
\* one stored user has that email.
C22_ConcurrentRegistrationsOneUser ==
    \A c, d \in Callers :
        (/\ c # d
         /\ caller[c].pc = "done" /\ caller[d].pc = "done"
         /\ caller[c].arg.email = caller[d].arg.email
         /\ \A i \in 1..Len(caller[c].users) : caller[c].users[i].email # caller[c].arg.email
         /\ \A i \in 1..Len(caller[d].users) : caller[d].users[i].email # caller[d].arg.email) =>
            Cardinality({i \in 1..Len(users) : users[i].email = caller[c].arg.email}) = 1

-----------------------------------------------------------------------------
(* The queries *)

\* records.sort((a, b) => getTime(b.timestamp) - getTime(a.timestamp)):
\* Array.prototype.sort is stable, so a record goes behind every record
\* whose timestamp is not older than its own.
sortInsert(sorted, r) ==
    LET ahead == {k \in 1..Len(sorted) :
                    getTime(sorted[k].timestamp) >= getTime(r.timestamp)}
        n == Cardinality(ahead)
    IN  SubSeq(sorted, 1, n) \o <<r>> \o SubSeq(sorted, n + 1, Len(sorted))

RECURSIVE sort(_)
sort(recs) ==
    IF recs = <<>> THEN <<>>
    ELSE sortInsert(sort(SubSeq(recs, 1, Len(recs) - 1)), recs[Len(recs)])

\* checkAttendanceStatus telling "marked today" from any record of the user.
checkAttendanceStatusAnyDay(recs, userId, today) ==
    LET userRecords == SelectSeq(recs, LAMBDA record : record.userId = userId)
    IN  [markedToday |-> userRecords # <<>>,
         lastMarked |-> IF Len(userRecords) > 0
                        THEN sort(userRecords)[1].timestamp ELSE NoValue]

\* checkAttendanceStatus taking the user's last stored record for the latest.
checkAttendanceStatusLastStored(recs, userId, today) ==
    LET todayRecord == find({k \in 1..Len(recs) :
                               recs[k].userId = userId /\ recs[k].date = today})
        userRecords == SelectSeq(recs, LAMBDA record : record.userId = userId)
    IN  [markedToday |-> todayRecord # 0,
         lastMarked |-> IF Len(userRecords) > 0
                        THEN userRecords[Len(userRecords)].timestamp ELSE NoValue]

checkAttendanceStatus(recs, userId, today) ==
    LET todayRecord == find({k \in 1..Len(recs) :
                               recs[k].userId = userId /\ recs[k].date = today})
        userRecords == SelectSeq(recs, LAMBDA record : record.userId = userId)
        lastRecord == IF Len(userRecords) > 0 THEN sort(userRecords)[1] ELSE NoValue
    IN  [markedToday |-> todayRecord # 0,
         lastMarked |-> IF lastRecord # NoValue THEN lastRecord.timestamp ELSE NoValue]

\* getAttendanceRecords returning the records as they are stored.
getAttendanceRecordsUnsorted(recs) == recs

getAttendanceRecords(recs) == sort(recs)

getAllUsers(us) ==
    [i \in 1..Len(us) |-> [id |-> us[i].id, name |-> us[i].name,
                            email |-> us[i].email,
                            registeredAt |-> us[i].registeredAt]]

\* The label is the user's id, a string.  The stored descriptor came from a
\* Float32Array (Array.from), so new Float32Array(...) yields its numbers again.
getUsersData(us) ==
    [i \in 1..Len(us) |->
        MockLabeledFaceDescriptors(ToString(us[i].id), <<us[i].faceDescriptor>>)]

\* The ledgers the queries are run on.  new Date() is the wall clock, which
\* can be set back between two calls, so the records of a ledger need not be
\* stored in the order of their timestamps.  A record holds the date read at
\* line 193 and the instant read at line 207, at most one tick later.
LedgerRecords(k) ==
    {[id |-> Len(TwoUsers.users) + k, userId |-> TwoUsers.users[u].id,
      userName |-> TwoUsers.users[u].name,
      timestamp |-> toISOString(at[2]), date |-> datePart(toISOString(at[1]))] :
        u \in 1..Len(TwoUsers.users),
        at \in {p \in (0..MaxClock) \X (0..MaxClock) : p[2] - p[1] \in 0..1}}

Ledgers ==
    {recs \in UNION {[1..n -> UNION {LedgerRecords(k) : k \in 1..MaxRecords}] :
                        n \in 0..MaxRecords} :
        /\ \A k \in 1..Len(recs) : recs[k] \in LedgerRecords(k)
        /\ \A i, j \in 1..Len(recs) :
              (recs[i].userId = recs[j].userId /\ recs[i].date = recs[j].date) => i = j}

InitQuery ==
    /\ users = TwoUsers.users
    /\ attendance \in Ledgers
    /\ clock \in 0..MaxClock
    /\ nextUuid = Len(TwoUsers.users) + MaxRecords + 1
    /\ result = NoCall
    /\ InitCallers
    /\ InitScreen
    /\ InitMatcher

CheckAttendanceStatus ==
    \E userId \in Uuids :
        /\ result' = [op |-> "checkAttendanceStatus",
                      arg |-> [userId |-> userId, today |-> Today], line |-> 173,
                      value |-> checkAttendanceStatus(attendance, userId, Today)]
        /\ UNCHANGED <<users, attendance, clock, nextUuid, caller, matchVars, ui>>

\* getAttendanceRecords writing the sorted list back to the ATTENDANCE key.
GetAttendanceRecordsSortingStore ==
    /\ result' = [op |-> "getAttendanceRecords", arg |-> NoValue, line |-> 224,
                  value |-> [records |-> getAttendanceRecords(attendance)]]
    /\ attendance' = getAttendanceRecords(attendance)
    /\ UNCHANGED <<users, clock, nextUuid, caller, matchVars, ui>>

\* initializeStorage writes a list key only when the key is absent or holds
\* no JSON; the sort is done on the parsed copy.
GetAttendanceRecords ==
    /\ result' = [op |-> "getAttendanceRecords", arg |-> NoValue, line |-> 224,
                  value |-> [records |-> getAttendanceRecords(attendance)]]
    /\ UNCHANGED <<users, attendance, clock, nextUuid, caller, matchVars, ui>>

GetAllUsers ==
    /\ result' = [op |-> "getAllUsers", arg |-> NoValue, line |-> 233,
                  value |-> [users |-> getAllUsers(users)]]
    /\ UNCHANGED <<users, attendance, clock, nextUuid, caller, matchVars, ui>>

GetUsersData ==
    /\ result' = [op |-> "getUsersData", arg |-> NoValue,
                  line |-> IF Len(users) = 0 THEN 141 ELSE 144,
                  value |-> [labeledDescriptors |-> getUsersData(users)]]
    /\ UNCHANGED <<users, attendance, clock, nextUuid, caller, matchVars, ui>>

NextQuery ==
    CheckAttendanceStatus \/ GetAttendanceRecords \/ GetAllUsers \/ GetUsersData

SpecQuery == InitQuery /\ [][NextQuery]_vars

-----------------------------------------------------------------------------
(* Properties of the queries *)

\* C13: checkAttendanceStatus returns markedToday = true exactly when the
\* ledger holds a record of that userId whose date is the current date.
C13_MarkedTodayIffRecordOfToday ==
    result.op = "checkAttendanceStatus" =>
        (result.value.markedToday <=> RecordsOf(result.arg.userId, Today) # {})

\* The user has a record of another day only, and is reported not marked.
C13_Witness ==
    /\ result.op = "checkAttendanceStatus" /\ ~result.value.markedToday
    /\ \E k \in 1..Len(attendance) : attendance[k].userId = result.arg.userId

\* C14: checkAttendanceStatus returns as lastMarked the greatest timestamp
\* among the user's records of all dates, and null exactly when the user has
\* no record.
C14_LastMarkedIsLatest ==
    result.op = "checkAttendanceStatus" =>
        LET mine == {k \in 1..Len(attendance) :
                        attendance[k].userId = result.arg.userId}
        IN  /\ (result.value.lastMarked = NoValue) <=> (mine = {})
            /\ mine # {} =>
                  /\ \E k \in mine : attendance[k].timestamp = result.value.lastMarked
                  /\ \A k \in mine : getTime(attendance[k].timestamp)
                                        <= getTime(result.value.lastMarked)

\* The user has two records, the later one stored first.
C14_Witness ==
    /\ result.op = "checkAttendanceStatus"
    /\ \E i, j \in 1..Len(attendance) :
          /\ i < j
          /\ attendance[i].userId = result.arg.userId
          /\ attendance[j].userId = result.arg.userId
          /\ getTime(attendance[i].timestamp) > getTime(attendance[j].timestamp)
          /\ result.value.lastMarked = attendance[i].timestamp

\* The number of times a record occurs in a list
Occurrences(list, r) == Cardinality({k \in 1..Len(list) : list[k] = r})

\* C15: getAttendanceRecords returns exactly the stored records, none added,
\* dropped or duplicated, newest first, whatever the order they are stored in.
C15_RecordsNewestFirst ==
    result.op = "getAttendanceRecords" =>
        LET got == result.value.records
        IN  /\ Len(got) = Len(attendance)
            /\ \A k \in 1..Len(attendance) :
                  Occurrences(got, attendance[k]) = Occurrences(attendance, attendance[k])
            /\ \A i, j \in 1..Len(got) :
                  i < j => getTime(got[i].timestamp) >= getTime(got[j].timestamp)

\* Records stored oldest first have come back newest first.
C15_Witness ==
    /\ result.op = "getAttendanceRecords"
    /\ Len(attendance) >= 2
    /\ getTime(attendance[1].timestamp) < getTime(attendance[2].timestamp)
    /\ result.value.records[1] = attendance[2]

\* The step is a call of one of the four queries.
QueryStep ==
    /\ result' # result
    /\ result'.op \in {"checkAttendanceStatus", "getAttendanceRecords",
                       "getAllUsers", "getUsersData"}

\* C26: checkAttendanceStatus, getAttendanceRecords, getAllUsers and
\* getUsersData leave the stored users and the stored ledger, contents and
\* order, as they were.
C26_QueriesReadOnly ==
    [][QueryStep => (users' = users /\ attendance' = attendance)]_vars

\* getAttendanceRecords has returned the records in another order than they
\* are stored in, and they are still stored in that order.
C26_Witness ==
    /\ result.op = "getAttendanceRecords"
    /\ Len(attendance) >= 2
    /\ result.value.records # attendance
    /\ getTime(attendance[1].timestamp) < getTime(attendance[2].timestamp)

-----------------------------------------------------------------------------
(* Writes and queries together *)

\* The store after one registration and one mark of the user registered.
OneMarked ==
    LET first == registerUser(<<>>, [name |-> "Alice", email |-> "a@x.com",
                                     faceDescriptor |-> <<0>>], 0, 1, "ok")
        marked == markAttendance(first.users, <<>>, 1, datePart(toISOString(0)),
                                 toISOString(0), 2, TRUE)
    IN  [users |-> first.users, records |-> marked.records]

InitService ==
    /\ users = OneMarked.users
    /\ attendance = OneMarked.records
    /\ clock = 0
    /\ nextUuid = 3
    /\ result = NoCall
    /\ InitCallers
    /\ InitScreen
    /\ InitMatcher

NextService == Next \/ NextQuery

SpecService == InitService /\ [][NextService]_vars

\* C18: the ledger is append-only: a record in the ledger stays where it is,
\* every field unchanged, through any registerUser, markAttendance,
\* checkAttendanceStatus or getAttendanceRecords call.
C18_LedgerAppendOnly ==
    [][/\ Len(attendance') >= Len(attendance)
       /\ \A k \in 1..Len(attendance) : attendance'[k] = attendance[k]]_vars

\* A record's user has been registered again under another name, a second
\* record has been added, and a query has just run: the first is still there.
C18_Witness ==
    /\ result.op \in {"checkAttendanceStatus", "getAttendanceRecords"}
    /\ Len(attendance) >= 2
    /\ \E i \in 1..Len(users) :
          users[i].id = attendance[1].userId /\ users[i].name # attendance[1].userName

\* C20: the user a registerUser call has returned is in the persisted store:
\* getAllUsers lists a user with the returned id, email and name.
C20_ReturnedUserIsStored ==
    result.op = "registerUser" =>
        \E i \in 1..Len(getAllUsers(users)) :
            /\ getAllUsers(users)[i].id = result.value.id
            /\ getAllUsers(users)[i].email = result.value.email
            /\ getAllUsers(users)[i].name = result.value.name

\* C24: getAllUsers and getUsersData list one entry per stored user, in the
\* order of first registration: a registerUser call leaves every entry listed
\* before it at its position, and adds at most one entry, at the end.
C24_ListingKeepsRegistrationOrder ==
    [][\A email \in Emails :
          RegisterStep(email) =>
             /\ Len(getAllUsers(users')) = Len(users')
             /\ Len(getUsersData(users')) = Len(users')
             /\ Len(users') \in {Len(users), Len(users) + 1}
             /\ \A i \in 1..Len(users) :
                   /\ getAllUsers(users')[i].id = getAllUsers(users)[i].id
                   /\ getAllUsers(users')[i].email = getAllUsers(users)[i].email
                   /\ getUsersData(users')[i].label = getUsersData(users)[i].label]_vars

-----------------------------------------------------------------------------
(* registerUser called with any descriptor *)

\* The descriptors a caller can hand over (faceDescriptor: number[]): the
\* ones captured, an empty one, one too long, one with a non-finite number.
Descriptors ==
    {p.faceDescriptor : p \in Profiles} \cup {<<>>, <<0, 0>>, <<NaN>>}

RegisterUserWith ==
    \E email \in Emails, d \in Descriptors, io \in WriteOutcomes :
        LET userData == [name |-> "Alice", email |-> email, faceDescriptor |-> d]
            out == registerUser(users, userData, clock, nextUuid, io)
        IN  /\ nextUuid + out.uuids <= MaxUuid + 1
            /\ users' = out.users
            /\ nextUuid' = nextUuid + out.uuids
            /\ result' = [op |-> "registerUser", arg |-> userData,
                          line |-> out.line, value |-> out.value]
            /\ UNCHANGED <<attendance, clock, caller, matchVars, ui>>

NextRegister == Tick \/ RegisterUserWith

SpecRegister == Init /\ [][NextRegister]_vars

\* The descriptor has the length of a captured one and finite numbers only.
ValidEmbedding(d) ==
    /\ \E p \in Profiles : Len(d) = Len(p.faceDescriptor)
    /\ \A i \in 1..Len(d) : d[i] # NaN

\* C21: a registerUser call with a face descriptor of the wrong length or
\* holding a non-finite value ends in an InvalidEmbedding error and leaves
\* the stored users as they were.
C21_InvalidEmbeddingRejected ==
    [][\A email \in Emails :
          (RegisterStep(email) /\ ~ValidEmbedding(result'.arg.faceDescriptor)) =>
             /\ result'.value = [error |-> "InvalidEmbedding"]
             /\ users' = users]_vars

-----------------------------------------------------------------------------
(* The attendance-marking screen *)

\* mockDetection.descriptor: new Float32Array(128).fill(0.5)
mockDetection == [i \in 1..EmbLen |-> 5]

\* The effects that run after a render, before and after being the state at
\* the last render and the state set since.  "Reset states when user
\* changes": a recognized user other than currentUserId becomes
\* currentUserId, attendanceMarked is reset and alreadyMarkedToday is set from
\* checkAttendanceStatus.  "Face recognition process": when recognizedUser or
\* processingAttendance has changed the interval is cleared, and a new one is
\* started unless processingAttendance; nor is one started under the error
\* alert, which is rendered in place of the video and the canvas, so that
\* videoRef.current and canvasRef.current are null.
afterRender(before, after, recs, today) ==
    LET changed == /\ after.recognizedUser # NoValue
                   /\ after.recognizedUser.id # after.currentUserId
        reset == IF changed
                 THEN [after EXCEPT
                         !.currentUserId = after.recognizedUser.id,
                         !.attendanceMarked = FALSE,
                         !.alreadyMarkedToday =
                             checkAttendanceStatus(recs, after.recognizedUser.id,
                                                   today).markedToday]
                 ELSE after
        deps == \/ before.recognizedUser # after.recognizedUser
                \/ before.processingAttendance # after.processingAttendance
    IN  [reset EXCEPT !.interval = IF deps
                                   THEN ~after.processingAttendance /\ ~after.error
                                   ELSE after.interval]

InitScreenStore ==
    /\ users = TwoUsers.users
    /\ attendance = <<>>
    /\ clock = 0
    /\ nextUuid = 3
    /\ result = NoCall
    /\ InitCallers
    /\ InitScreen
    /\ InitMatcher

\* One run of recognizeFaces off the interval (lines 364-419).
RecognizeFaces ==
    \E randomIndex \in 1..(IF Len(users) = 0 THEN 1 ELSE Len(users)) :
        LET labeledFaceDescriptors == getUsersData(users)
            r == mockFindBestMatch(mockDetection, labeledFaceDescriptors, randomIndex)
            i == find({k \in 1..Len(labeledFaceDescriptors) :
                          labeledFaceDescriptors[k].label = r.label})
            userId == users[i].id
            differs == \/ ui.recognizedUser = NoValue
                       \/ ui.recognizedUser.id # userId
            seen == IF differs
                    THEN [ui EXCEPT
                            !.recognizedUser =
                                [id |-> userId, name |-> labeledFaceDescriptors[i].name],
                            !.alreadyMarkedToday =
                                checkAttendanceStatus(attendance, userId, Today).markedToday]
                    ELSE ui
            ran == [ui EXCEPT !.event = "recognizeFaces", !.fired = 0]
        IN  /\ ui.interval
            /\ ui.pc = "idle"
            /\ ui' = IF Len(labeledFaceDescriptors) = 0 \/ r.label = "unknown" \/ i = 0
                     THEN ran
                     ELSE afterRender(ui, [seen EXCEPT !.interval = FALSE,
                                                       !.event = "recognizeFaces",
                                                       !.fired = 0],
                                      attendance, Today)
            /\ UNCHANGED <<storeVars, caller, matchVars>>

\* handleMarkAttendance up to the answer of checkAttendanceStatus (lines
\* 430-439); the button shows for a recognized user not yet marked.
HandleMarkAttendance ==
    LET status == checkAttendanceStatus(attendance, ui.recognizedUser.id, Today)
        busy == [ui EXCEPT !.processingAttendance = TRUE,
                           !.marking = ui.recognizedUser.id,
                           !.event = "handleMarkAttendance", !.fired = 0]
    IN  /\ ui.recognizedUser # NoValue
        /\ ~ui.attendanceMarked /\ ~ui.processingAttendance /\ ~ui.error
        /\ ui.pc = "idle"
        /\ Len(ui.timers) < MaxTimers
        /\ nextUuid <= MaxCallerUuid
        /\ IF status.markedToday
           THEN ui' = afterRender(ui, [busy EXCEPT
                                         !.alreadyMarkedToday = TRUE,
                                         !.attendanceMarked = TRUE,
                                         !.timers = Append(@, ui.recognizedUser.id)],
                                  attendance, Today)
           ELSE ui' = afterRender(ui, [busy EXCEPT !.pc = "mark"], attendance, Today)
        /\ UNCHANGED <<storeVars, caller, matchVars>>

\* handleMarkAttendance from the markAttendance call on (lines 440-461).  The
\* awaited calls settle in microtasks: no timer, interval or click of this
\* screen runs before the handler goes on (ui.pc = "mark" holds them back).
HandleMarkAttendanceMark ==
    \E writeOk \in BOOLEAN, dt \in 0..1 :
        LET out == markAttendance(users, attendance, ui.marking, Today,
                                  toISOString(clock + dt), nextUuid, writeOk)
            done == [ui EXCEPT !.pc = "idle", !.event = "markAttendance", !.fired = 0]
        IN  /\ ui.pc = "mark"
            /\ nextUuid + out.uuids <= MaxCallerUuid + 1
            /\ clock + dt <= MaxClock
            /\ attendance' = out.records
            /\ nextUuid' = nextUuid + out.uuids
            /\ clock' = IF out.line \in {212, 214} THEN clock + dt ELSE clock
            /\ IF out.line \in {199, 214}
               THEN /\ Len(ui.timers) < MaxTimers
                    /\ ui' = afterRender(ui, [done EXCEPT
                                                !.attendanceMarked = TRUE,
                                                !.alreadyMarkedToday = FALSE,
                                                !.timers = Append(@, ui.marking)],
                                         out.records, Today)
               ELSE ui' = afterRender(ui, [done EXCEPT !.error = TRUE,
                                                       !.processingAttendance = FALSE],
                                      out.records, Today)
            /\ UNCHANGED <<users, result, caller, matchVars>>

\* The callback of setTimeout(..., 5000) runs (lines 450-457).
ResetTimer ==
    /\ ui.timers # <<>>
    /\ ui.pc = "idle"
    /\ ui' = afterRender(ui, [ui EXCEPT !.recognizedUser = NoValue,
                                        !.currentUserId = 0,
                                        !.attendanceMarked = FALSE,
                                        !.alreadyMarkedToday = FALSE,
                                        !.processingAttendance = FALSE,
                                        !.timers = Tail(@),
                                        !.event = "resetTimer",
                                        !.fired = Head(ui.timers)],
                         attendance, Today)
    /\ UNCHANGED <<storeVars, caller, matchVars>>

\* handleReset (lines 466-472); the Reset button shows once attendance is marked.
HandleReset ==
    /\ ui.recognizedUser # NoValue /\ ui.attendanceMarked /\ ~ui.error
    /\ ui.pc = "idle"
    /\ ui' = afterRender(ui, [ui EXCEPT !.recognizedUser = NoValue,
                                        !.currentUserId = 0,
                                        !.attendanceMarked = FALSE,
                                        !.alreadyMarkedToday = FALSE,
                                        !.processingAttendance = FALSE,
                                        !.event = "handleReset",
                                        !.fired = 0],
                         attendance, Today)
    /\ UNCHANGED <<storeVars, caller, matchVars>>

\* "Try Again" on the error alert: setError(null)
TryAgain ==
    /\ ui.error
    /\ ui.pc = "idle"
    /\ ui' = afterRender(ui, [ui EXCEPT !.error = FALSE, !.event = "tryAgain",
                                        !.fired = 0],
                         attendance, Today)
    /\ UNCHANGED <<storeVars, caller, matchVars>>

NextScreen ==
    \/ Tick
    \/ RecognizeFaces
    \/ HandleMarkAttendance
    \/ HandleMarkAttendanceMark
    \/ ResetTimer
    \/ HandleReset
    \/ TryAgain

SpecScreen == InitScreenStore /\ [][NextScreen]_vars

\* C30: a recognized user stays the recognized user until handleReset is
\* invoked or the reset timer of that user's own marking fires: no run of
\* recognizeFaces and no timer of an earlier marking replaces or clears it.
C30_RecognizedUserStays ==
    [][(ui.recognizedUser # NoValue /\ ui'.recognizedUser # ui.recognizedUser) =>
          \/ ui'.event = "handleReset"
          \/ /\ ui'.event = "resetTimer"
             /\ ui'.fired = ui.recognizedUser.id
             /\ ui.attendanceMarked]_vars

-----------------------------------------------------------------------------
(* The screen beside another tab on the same store *)

\* MarkAttendance is a call of markAttendance from another tab: it runs in
\* that tab's own event loop, between any two steps of this screen.
NextScreenTabs == NextScreen \/ MarkAttendance

SpecScreenTabs == InitScreenStore /\ [][NextScreenTabs]_vars

\* A run of handleMarkAttendance completes without error: it reaches line 450
\* and schedules its reset.
MarkingCompletes == Len(ui'.timers) = Len(ui.timers) + 1

\* C31: when handleMarkAttendance completes without error the screen shows
\* "Attendance Marked!" only if this run appended a record to the ledger, and
\* shows "Attendance Already Marked" whenever the ledger already held a
\* record of the recognized user and the current day, whoever stored it.
C31_ScreenReportsOutcome ==
    [][MarkingCompletes =>
          /\ (ui'.attendanceMarked /\ ~ui'.alreadyMarkedToday) =>
                 /\ Len(attendance') = Len(attendance) + 1
                 /\ attendance'[Len(attendance')].userId = ui'.marking
          /\ (\E k \in 1..Len(attendance) :
                 /\ attendance[k].userId = ui'.marking
                 /\ attendance[k].date = Today) => ui'.alreadyMarkedToday]_vars

-----------------------------------------------------------------------------
(* The screen under the event loop's scheduling *)

\* A settled await is resumed, a timeout that is due is run and an interval
\* that is set keeps firing; clicks and the other tab are under no obligation.
SpecScreenFair ==
    /\ SpecScreenTabs
    /\ WF_vars(HandleMarkAttendanceMark)
    /\ WF_vars(ResetTimer)
    /\ WF_vars(RecognizeFaces)

\* C32: once handleMarkAttendance has set processingAttendance,
\* processingAttendance becomes false again and face recognition, suspended
\* meanwhile, is running again.
C32_ProcessingEndsRecognitionResumes ==
    ui.processingAttendance ~> (~ui.processingAttendance /\ ui.interval)

====
